---- MODULE Spec2Model ----
(***************************************************************************)
(* Model of binance_bot.py: the rule registry (BotState), the price        *)
(* history store (PriceHistory), the conversation engine                   *)
(* (NotificationManager) and the two loops of BinanceMonitor               *)
(* (command_loop / monitor_prices).                                         *)
(*                                                                         *)
(* Units: time in seconds (time.time() and datetime.utcnow() read the same *)
(* clock), prices in tenths of a quote unit, percentages (thresholds and   *)
(* change_percent, which the code rounds to 2 decimals) in hundredths of a *)
(* percent.                                                                *)
(***************************************************************************)
EXTENDS Integers, Sequences, FiniteSets, TLC

VARIABLES
    monitoring_enabled,  \* BotState.state["monitoring_enabled"]
    monitoring_configs,  \* contents of the list BotState.state["monitoring_configs"]
    state_file,          \* bot_state.json as last written by save_state
    user_state,          \* NotificationManager.user_state (dict chat_id -> session)
    last_update_id,      \* NotificationManager.last_update_id
    cmd_pc,              \* position of command_loop
    batch_left,          \* updates of the current getUpdates result not yet iterated
    responses,           \* messages sent by send_command_response for the last update
    configs,             \* contents of the list the local `configs` of monitor_prices refers to
    configs_aliased,     \* TRUE iff that list is the object state["monitoring_configs"]
    mon_pc,              \* position of monitor_prices
    mon_idx,             \* index of the list iterator of `for config in configs`
    history,             \* PriceHistory.history (dict key -> list of samples)
    data_file,           \* price_history.json as last written by save_history
    last_alert_time,     \* BinanceMonitor.last_alert_time (dict key -> seconds)
    clock,               \* wall clock, seconds
    eval_log,            \* history variable: the threshold-breaching evaluations so far
    cycle,               \* history variable: what the current monitor cycle saw and did
    add_calls            \* history variable: the add_config calls since the last removal

vars == <<monitoring_enabled, monitoring_configs, state_file, user_state,
          last_update_id, cmd_pc, batch_left, responses, configs,
          configs_aliased, mon_pc, mon_idx, history, data_file,
          last_alert_time, clock, eval_log, cycle, add_calls>>

botVars  == <<monitoring_enabled, monitoring_configs, state_file>>
cmdVars  == <<user_state, last_update_id, cmd_pc, batch_left, responses>>
monVars  == <<mon_pc, mon_idx, history, data_file, last_alert_time, eval_log>>

-----------------------------------------------------------------------------
(* Bounds of the model.                                                    *)

\* Config.MAX_MONITORING_CONFIGS, a configurable limit (20 as shipped).
MAX_MONITORING_CONFIGS == 3
\* Largest update_id the chat server hands out.
MaxUpdates == 8
\* Largest number of updates one getUpdates call returns.
MaxBatch == 2
\* The same while both loops run.
CoreBatch == 1
\* Monitor cycles followed when both loops run.
MaxCycles == 2
\* Monitor cycles followed when the monitor loop runs alone.
MonCycles == 3
\* Updates and cycles followed when the operator only switches monitoring
\* on and off.
GateUpdates == 2
GateCycles == 2
\* Updates followed when the conversation loop runs alone.
DialogUpdates == 10
\* Monitor cycles followed over the feed that probes the alert decision.
AlertCycles == 2
\* Updates and cycles followed when rules are replaced while alerts fire.
CooldownUpdates == 8
CooldownCycles == 2
\* Updates and cycles followed when faults interrupt the monitor cycle.
LiveUpdates == 2
LiveCycles == 2

-----------------------------------------------------------------------------
(* Floats.  A float is a number of hundredths, or NaN.                     *)

F(v) == [nan |-> FALSE, v |-> v]
NaN == [nan |-> TRUE, v |-> 0]
\* IEEE comparison: every ordered comparison with NaN is False.
FloatLE(a, b) == ~a.nan /\ ~b.nan /\ a.v <= b.v
FloatGT(a, b) == ~a.nan /\ ~b.nan /\ a.v > b.v
FloatGE(a, b) == ~a.nan /\ ~b.nan /\ a.v >= b.v

\* An optional value (None or a value) is the empty or the one-element
\* sequence.
None == <<>>
Some(v) == <<v>>

-----------------------------------------------------------------------------
(* Configuration (config.py).                                              *)

TELEGRAM_CHAT_ID == "ID"
CHECK_INTERVAL == 60
MAX_HISTORY_HOURS == 24
\* The shipped defaults are 5 symbols x 3 windows; the model keeps one
\* symbol and two of the windows so that the registry starts below the
\* scaled-down capacity.
DEFAULT_SYMBOLS == <<"BTCUSDT_PERP">>
DEFAULT_TIME_WINDOWS == <<[window |-> 5, threshold |-> F(50)],
                          [window |-> 15, threshold |-> F(100)]>>

\* The chat identities that write to the bot.
ChatIds == {"ID", "OTHER"}

-----------------------------------------------------------------------------
(* Inbound texts and the string functions the handlers apply to them.      *)

Texts == {"1", "2", "3", "4", "5", "0", "0.5", "nan", "abc", "BTCUSDT",
          "BTCUSDT_PERP", "all", "ALL", "/cancel", "EXIT", "/enable",
          "/disable"}

\* str.lower()
Lower(t) == CASE t = "ALL" -> "all"
              [] t = "EXIT" -> "exit"
              [] t = "BTCUSDT" -> "btcusdt"
              [] t = "BTCUSDT_PERP" -> "btcusdt_perp"
              [] OTHER -> t

\* str.upper()
Upper(t) == CASE t = "all" -> "ALL"
              [] t = "abc" -> "ABC"
              [] t = "nan" -> "NAN"
              [] t = "/cancel" -> "/CANCEL"
              [] t = "/enable" -> "/ENABLE"
              [] t = "/disable" -> "/DISABLE"
              [] OTHER -> t

\* "_PERP" in symbol
ContainsPerp(s) == s \in {"BTCUSDT_PERP"}

\* re.match(r"^[A-Z0-9]{5,12}$", symbol)
MatchesSymbol(s) == s \in {"BTCUSDT"}

ValueError == [ok |-> FALSE]
\* int(text)
PyInt(t) == CASE t = "0" -> [ok |-> TRUE, val |-> 0]
              [] t = "1" -> [ok |-> TRUE, val |-> 1]
              [] t = "2" -> [ok |-> TRUE, val |-> 2]
              [] t = "3" -> [ok |-> TRUE, val |-> 3]
              [] t = "4" -> [ok |-> TRUE, val |-> 4]
              [] t = "5" -> [ok |-> TRUE, val |-> 5]
              [] OTHER -> ValueError

\* float(text), in hundredths
PyFloat(t) == CASE t = "0" -> [ok |-> TRUE, val |-> F(0)]
                [] t = "0.5" -> [ok |-> TRUE, val |-> F(50)]
                [] t = "1" -> [ok |-> TRUE, val |-> F(100)]
                [] t = "2" -> [ok |-> TRUE, val |-> F(200)]
                [] t = "3" -> [ok |-> TRUE, val |-> F(300)]
                [] t = "4" -> [ok |-> TRUE, val |-> F(400)]
                [] t = "5" -> [ok |-> TRUE, val |-> F(500)]
                [] t = "nan" -> [ok |-> TRUE, val |-> NaN]
                [] OTHER -> ValueError

-----------------------------------------------------------------------------
(* BotState.                                                               *)

Rule(symbol, market_type, window, threshold) ==
    [symbol |-> symbol, market_type |-> market_type,
     window |-> window, threshold |-> threshold]

\* The identity add_config and remove_config compare.
Identity(c) == <<c.symbol, c.market_type, c.window>>

Identities(cfgs) == {Identity(cfgs[i]) : i \in 1..Len(cfgs)}

RECURSIVE DefaultConfigs(_, _)
\* BotState.__init__: for symbol in DEFAULT_SYMBOLS: for window, threshold in ...
DefaultConfigs(i, j) ==
    IF i > Len(DEFAULT_SYMBOLS) THEN <<>>
    ELSE IF j > Len(DEFAULT_TIME_WINDOWS) THEN DefaultConfigs(i + 1, 1)
    ELSE <<Rule(DEFAULT_SYMBOLS[i], "spot", DEFAULT_TIME_WINDOWS[j].window,
                DEFAULT_TIME_WINDOWS[j].threshold)>>
         \o DefaultConfigs(i, j + 1)

\* json.dump and json.load on the values of the state dict.  A JSON text is
\* kept as its tokens: true/false, <<"int", n>> for an integer literal,
\* <<"float", v>> for a literal with a fraction (v in hundredths), <<"NaN">>,
\* <<"str", s>> for a string, a sequence for an array and a function for an
\* object.
json_dump_bool(b) == IF b THEN "true" ELSE "false"
json_load_bool(t) == t = "true"
json_dump_float(x) == IF x.nan THEN <<"NaN">> ELSE <<"float", x.v>>
json_load_float(t) == IF t = <<"NaN">> THEN NaN ELSE F(t[2])
json_dump_int(n) == <<"int", n>>
json_load_int(t) == t[2]
json_dump_str(x) == <<"str", x>>
json_load_str(t) == t[2]

json_dump_config(c) ==
    [symbol |-> json_dump_str(c.symbol),
     market_type |-> json_dump_str(c.market_type),
     window |-> json_dump_int(c.window),
     threshold |-> json_dump_float(c.threshold)]

json_load_config(t) ==
    [symbol |-> json_load_str(t.symbol),
     market_type |-> json_load_str(t.market_type),
     window |-> json_load_int(t.window),
     threshold |-> json_load_float(t.threshold)]

\* json.dump(self.state); the time stamp "last_update" is left out.
json_dump(state) ==
    [monitoring_enabled |-> json_dump_bool(state.monitoring_enabled),
     monitoring_configs |->
         [i \in DOMAIN state.monitoring_configs |->
              json_dump_config(state.monitoring_configs[i])]]

\* json.load(f), for a document of the current format
json_load(text) ==
    [monitoring_enabled |-> json_load_bool(text.monitoring_enabled),
     monitoring_configs |->
         [i \in DOMAIN text.monitoring_configs |->
              json_load_config(text.monitoring_configs[i])]]

\* The document save_state writes.
Document(enabled, cfgs) ==
    json_dump([monitoring_enabled |-> enabled, monitoring_configs |-> cfgs])

\* save_state that leaves no document behind.
save_state_writes_nothing(enabled, cfgs) == None

\* save_state: bot_state.json after it.
save_state(enabled, cfgs) == Some(Document(enabled, cfgs))

\* load_state that keeps the defaults when the file holds no rule.
load_state_keeps_defaults(state, file) ==
    IF file = None \/ file[1].monitoring_configs = <<>>
    THEN state
    ELSE json_load(file[1])

\* load_state: `state` is the state __init__ built from the defaults,
\* `file` is bot_state.json (None when there is no such file).  A document
\* save_state wrote has no key "symbols", so migrate_old_state is not
\* entered.
load_state(state, file) ==
    IF file = None
    THEN state
    ELSE json_load(file[1])

\* convert_window_to_int: a window json.load gave as an integer stays.
convert_window_to_int(state) == state

\* BotState.__init__: the state of a fresh BotState that finds `file`.
BotStateInit(file) ==
    convert_window_to_int(
        load_state([monitoring_enabled |-> TRUE,
                    monitoring_configs |-> DefaultConfigs(1, 1)], file))

\* SameConfig with a wrong comparison of the windows.
SameConfigWrongWindow(c, symbol, market_type, window) ==
    c.symbol = symbol /\ c.market_type = market_type /\ c.window < window

\* The duplicate test of add_config.
SameConfig(c, symbol, market_type, window) ==
    c.symbol = symbol /\ c.market_type = market_type /\ c.window = window

\* AtCapacity off by one.
AtCapacityOffByOne(cfgs) == Len(cfgs) > MAX_MONITORING_CONFIGS

\* The capacity test of add_config.
AtCapacity(cfgs) == Len(cfgs) >= MAX_MONITORING_CONFIGS

\* add_config: the value returned ("True", "False" or "None") and the list after it.
add_config(cfgs, symbol, market_type, window, threshold) ==
    IF \E i \in 1..Len(cfgs) : SameConfig(cfgs[i], symbol, market_type, window)
    THEN [result |-> "False", configs |-> cfgs]
    ELSE IF AtCapacity(cfgs)
    THEN [result |-> "None", configs |-> cfgs]
    ELSE [result |-> "True",
          configs |-> Append(cfgs, Rule(symbol, market_type, window, threshold))]

\* remove_config that takes the branch without a window: every rule of the
\* symbol and market type goes.
remove_config_any_window(cfgs, symbol, market_type, window) ==
    SelectSeq(cfgs, LAMBDA c : ~(c.symbol = symbol /\ c.market_type = market_type))

\* remove_config with a window: the list comprehension that builds the new list.
remove_config(cfgs, symbol, market_type, window) ==
    SelectSeq(cfgs, LAMBDA c : ~SameConfig(c, symbol, market_type, window))

\* get_formatted_symbol
get_formatted_symbol(symbol, market_type) ==
    IF market_type = "futures" THEN <<symbol, "_PERP">> ELSE <<symbol>>

-----------------------------------------------------------------------------
(* NotificationManager: the conversation engine.  The Chinese tokens of    *)
(* the source are written in pinyin.                                       *)

IdleSession == [state |-> "IDLE", data |-> <<>>]

\* What handling one inbound text does: the session afterwards, the
\* messages sent, and the registry write (kind "keep": none; "append": the
\* list object is appended to in place; "rebind": state["monitoring_configs"]
\* is bound to a new list object), whether save_state ran, and the
\* add_config call made, if any.
Reply(sess, resp, enabled, cfgs) ==
    [session |-> sess, responses |-> resp, enabled |-> enabled,
     configs |-> cfgs, kind |-> "keep", save |-> FALSE, call |-> <<>>]

\* The threshold test of ADD_CONFIG_STEP4: float(text), then `threshold <= 0`.
ThresholdRejected(t) == ~PyFloat(t).ok \/ FloatLE(PyFloat(t).val, F(0))

\* The window test of ADD_CONFIG_STEP3: int(text), then `window <= 0`.
WindowRejected(t) == ~PyInt(t).ok \/ PyInt(t).val <= 0

\* The state handle_guided_flow leaves after a successful add_config call.
AfterAddState == "ADD_CONFIG_CONTINUE"

\* AfterDeclineState that waits for the answer to the offer.
AfterDeclineStateQuestion == "START_MONITOR_QUESTION"

\* The state ADD_CONFIG_CONTINUE leaves after the answer no.
AfterDeclineState == "IDLE"

\* ADD_CONFIG_STEP4 once the threshold is accepted.
AddStep4(sess, text, enabled, cfgs) ==
    LET data == ("threshold" :> PyFloat(text).val) @@ sess.data
        r == add_config(cfgs, data.symbol, data.market_type, data.window,
                        data.threshold)
        call == <<[identity |-> <<data.symbol, data.market_type, data.window>>,
                   threshold |-> data.threshold, result |-> r.result,
                   before |-> cfgs, after |-> r.configs]>>
    IN  IF r.result = "None"
        \* response_msg is unbound: the UnboundLocalError is caught by the
        \* handler's except clause, which resets the session.
        THEN [session |-> IdleSession,
              responses |-> <<"capacity_exceeded", "error_reset">>,
              enabled |-> enabled, configs |-> cfgs, kind |-> "keep",
              save |-> FALSE, call |-> call]
        ELSE IF r.result = "True"
        THEN [session |-> [state |-> AfterAddState, data |-> data],
              responses |-> <<"added", "ask_continue">>,
              enabled |-> enabled, configs |-> r.configs, kind |-> "append",
              save |-> TRUE, call |-> call]
        ELSE [session |-> [state |-> AfterAddState, data |-> data],
              responses |-> <<"already_exists", "ask_continue">>,
              enabled |-> enabled, configs |-> cfgs, kind |-> "keep",
              save |-> FALSE, call |-> call]

\* REMOVE_CONFIG_SELECT.
RemoveSelect(sess, text, enabled, cfgs) ==
    LET listed == sess.data.configs
    IN  IF Lower(text) = "all"
        THEN [session |-> IdleSession, responses |-> <<"all_removed">>,
              enabled |-> enabled, configs |-> <<>>, kind |-> "rebind",
              save |-> TRUE, call |-> <<>>]
        ELSE IF ~PyInt(text).ok
        THEN Reply(sess, <<"invalid_number">>, enabled, cfgs)
        ELSE LET index == PyInt(text).val - 1
             IN  IF 0 <= index /\ index < Len(listed)
                 THEN LET c == listed[index + 1]
                      IN  [session |-> IdleSession, responses |-> <<"removed">>,
                           enabled |-> enabled,
                           configs |-> remove_config(cfgs, c.symbol,
                                                     c.market_type, c.window),
                           kind |-> "rebind", save |-> TRUE, call |-> <<>>]
                 ELSE Reply(sess, <<"invalid_index">>, enabled, cfgs)

\* IsCancel without the lower-casing.
IsCancelCaseSensitive(text) == text \in {"quxiao", "exit", "quit", "/cancel"}

\* The cancel test of handle_guided_flow.
IsCancel(text) == Lower(text) \in {"quxiao", "exit", "quit", "/cancel"}

\* handle_guided_flow
handle_guided_flow(sess, text, enabled, cfgs) ==
    LET state == sess.state
        data == sess.data
    IN  IF IsCancel(text)
        THEN Reply(IdleSession, <<"cancelled">>, enabled, cfgs)
        ELSE CASE state = "ADD_CONFIG_STEP1" ->
                 LET symbol == Upper(text)
                 IN  IF ContainsPerp(symbol)
                     THEN Reply(sess, <<"perp_suffix_rejected">>, enabled, cfgs)
                     ELSE IF ~MatchesSymbol(symbol)
                     THEN Reply(sess, <<"invalid_symbol">>, enabled, cfgs)
                     ELSE Reply([state |-> "ADD_CONFIG_STEP2",
                                 data |-> ("symbol" :> symbol) @@ data],
                                <<"ask_market_type">>, enabled, cfgs)
          [] state = "ADD_CONFIG_STEP2" ->
                 IF text \in {"1", "1. xianhuo", "xianhuo"}
                 THEN Reply([state |-> "ADD_CONFIG_STEP3",
                             data |-> ("market_type" :> "spot") @@ data],
                            <<"ask_window">>, enabled, cfgs)
                 ELSE IF text \in {"2", "2. yongxu heyue", "yongxu heyue"}
                 THEN Reply([state |-> "ADD_CONFIG_STEP3",
                             data |-> ("market_type" :> "futures") @@ data],
                            <<"ask_window">>, enabled, cfgs)
                 ELSE Reply(sess, <<"invalid_market_type">>, enabled, cfgs)
          [] state = "ADD_CONFIG_STEP3" ->
                 IF WindowRejected(text)
                 THEN Reply(sess, <<"invalid_window">>, enabled, cfgs)
                 ELSE Reply([state |-> "ADD_CONFIG_STEP4",
                             data |-> ("window" :> PyInt(text).val) @@ data],
                            <<"ask_threshold">>, enabled, cfgs)
          [] state = "ADD_CONFIG_STEP4" ->
                 IF ThresholdRejected(text)
                 THEN Reply(sess, <<"invalid_threshold">>, enabled, cfgs)
                 ELSE AddStep4(sess, text, enabled, cfgs)
          [] state = "ADD_CONFIG_CONTINUE" ->
                 IF text \in {"1", "1. shi", "shi", "yes", "y"}
                 THEN Reply([state |-> "ADD_CONFIG_STEP1", data |-> <<>>],
                            <<"ask_symbol">>, enabled, cfgs)
                 ELSE IF text \in {"2", "2. fou", "fou", "no", "n"}
                 THEN Reply([state |-> AfterDeclineState, data |-> <<>>],
                            <<"ask_start_monitoring">>, enabled, cfgs)
                 ELSE Reply(sess, <<"invalid_continue">>, enabled, cfgs)
          [] state = "START_MONITOR_QUESTION" ->
                 IF text \in {"1", "1. kaiqi jiankong", "kaiqi jiankong"}
                 THEN [session |-> IdleSession, responses |-> <<"monitoring_enabled">>,
                       enabled |-> TRUE, configs |-> cfgs, kind |-> "keep",
                       save |-> TRUE, call |-> <<>>]
                 ELSE IF text \in {"2", "2. zanbu kaiqi", "zanbu kaiqi"}
                 THEN Reply(IdleSession, <<"monitoring_not_enabled">>, enabled, cfgs)
                 ELSE Reply(IdleSession, <<"invalid_start_choice">>, enabled, cfgs)
          [] state = "REMOVE_CONFIG" ->
                 IF cfgs = <<>>
                 THEN Reply(IdleSession, <<"no_configs">>, enabled, cfgs)
                 ELSE Reply([state |-> "REMOVE_CONFIG_SELECT",
                             data |-> [configs |-> cfgs]],
                            <<"config_list">>, enabled, cfgs)
          [] state = "REMOVE_CONFIG_SELECT" ->
                 RemoveSelect(sess, text, enabled, cfgs)
          [] OTHER -> Reply(sess, <<>>, enabled, cfgs)

\* command_mapping that turns a text it does not hold into the help command.
command_mapping_or_help(text) ==
    CASE text \in {"1", "1. tianjia jiankong"} -> "tianjia jiankong"
      [] text \in {"2", "2. shanchu jiankong"} -> "shanchu jiankong"
      [] text \in {"3", "3. kaiqi jiankong"} -> "kaiqi jiankong"
      [] text \in {"4", "4. tingzhi jiankong"} -> "tingzhi jiankong"
      [] text \in {"5", "5. chakan zhuangtai"} -> "chakan zhuangtai"
      [] OTHER -> "bangzhu"

\* command_mapping of process_commands
command_mapping(text) ==
    CASE text \in {"1", "1. tianjia jiankong"} -> "tianjia jiankong"
      [] text \in {"2", "2. shanchu jiankong"} -> "shanchu jiankong"
      [] text \in {"3", "3. kaiqi jiankong"} -> "kaiqi jiankong"
      [] text \in {"4", "4. tingzhi jiankong"} -> "tingzhi jiankong"
      [] text \in {"5", "5. chakan zhuangtai"} -> "chakan zhuangtai"
      [] text \in {"6", "6. bangzhu"} -> "bangzhu"
      [] OTHER -> text

\* AfterRemoveCommandState that awaits the selection at once.
AfterRemoveCommandStateSelect == "REMOVE_CONFIG_SELECT"

\* The state handle_command leaves after the remove command.
AfterRemoveCommandState == "REMOVE_CONFIG"

\* handle_command
handle_command(sess, command, enabled, cfgs) ==
    CASE command \in {"/start", "/help", "6", "6. bangzhu", "bangzhu"} ->
             Reply(sess, <<"help">>, enabled, cfgs)
      [] command \in {"/status", "5", "5. chakan zhuangtai", "chakan zhuangtai"} ->
             Reply(sess, <<"status">>, enabled, cfgs)
      [] command \in {"/enable", "3", "3. kaiqi jiankong", "kaiqi jiankong"} ->
             [session |-> sess, responses |-> <<"monitoring_enabled">>,
              enabled |-> TRUE, configs |-> cfgs, kind |-> "keep",
              save |-> TRUE, call |-> <<>>]
      [] command \in {"/disable", "4", "4. tingzhi jiankong", "tingzhi jiankong"} ->
             [session |-> sess, responses |-> <<"monitoring_disabled">>,
              enabled |-> FALSE, configs |-> cfgs, kind |-> "keep",
              save |-> TRUE, call |-> <<>>]
      [] command \in {"1", "1. tianjia jiankong", "tianjia jiankong"} ->
             Reply([state |-> "ADD_CONFIG_STEP1", data |-> <<>>],
                   <<"ask_symbol">>, enabled, cfgs)
      [] command \in {"2", "2. shanchu jiankong", "shanchu jiankong"} ->
             IF cfgs = <<>>
             THEN Reply(sess, <<"no_configs">>, enabled, cfgs)
             ELSE Reply([state |-> AfterRemoveCommandState, data |-> <<>>],
                        <<"prepare_remove">>, enabled, cfgs)
      [] command \in {"1. kaiqi jiankong"} ->
             [session |-> sess, responses |-> <<"monitoring_enabled">>,
              enabled |-> TRUE, configs |-> cfgs, kind |-> "keep",
              save |-> TRUE, call |-> <<>>]
      [] command \in {"2. zanbu kaiqi", "zanbu kaiqi"} ->
             Reply(sess, <<"monitoring_not_enabled">>, enabled, cfgs)
      [] OTHER -> Reply(sess, <<"unknown_command">>, enabled, cfgs)

\* The body of `for update in updates` for an update that carries a
\* message of the authorized chat.
HandleText(sess, text, enabled, cfgs) ==
    IF sess.state # "IDLE"
    THEN handle_guided_flow(sess, text, enabled, cfgs)
    ELSE handle_command(sess, command_mapping(text), enabled, cfgs)

-----------------------------------------------------------------------------
(* PriceHistory.  A sample is [timestamp, price].                          *)

\* The wall clock at start-up: any real reading lies far beyond the
\* retention horizon and the cooldown.
StartClock == 2 * MAX_HISTORY_HOURS * 3600

\* The dict key f"{symbol}_{market_type}".
HistoryKey(symbol, market_type) == <<symbol, market_type>>

\* dict.get(key, default)
Get(dict, key, default) == IF key \in DOMAIN dict THEN dict[key] ELSE default

\* The filter of cleanup_old_data.
Retained(entry, cutoff_time) == entry.timestamp > cutoff_time

\* cleanup_old_data, on the series of the key
cleanup_old_data(series, current_time) ==
    LET cutoff_time == current_time - MAX_HISTORY_HOURS * 3600
    IN  SelectSeq(series, LAMBDA entry : Retained(entry, cutoff_time))

\* The guard of add_price: `price is None or price <= 0`.
InvalidPrice(price) == price = None \/ price[1] <= 0

\* add_price
add_price(hist, symbol, market_type, price, now) ==
    IF InvalidPrice(price)
    THEN hist
    ELSE LET key == HistoryKey(symbol, market_type)
             series == Append(Get(hist, key, <<>>),
                              [timestamp |-> now, price |-> price[1]])
         IN  (key :> cleanup_old_data(series, now)) @@ hist

\* round(n / d), d > 0, ties to the even neighbour (the float ties of
\* round(x, 2) are decided the same way when x is exact in hundredths).
RoundDiv(n, d) ==
    LET a == IF n < 0 THEN -n ELSE n
        q == a \div d
        r == a % d
        m == IF 2 * r > d \/ (2 * r = d /\ q % 2 = 1) THEN q + 1 ELSE q
    IN  IF n < 0 THEN -m ELSE m

\* ChangePercent that gives the current price as a share of the start price.
ChangePercentOfStart(start_price, current_price) ==
    RoundDiv(current_price * 10000, start_price)

\* change_percent, in hundredths of a percent
ChangePercent(start_price, current_price) ==
    RoundDiv((current_price - start_price) * 10000, start_price)

\* InWindow with the boundary excluded.
InWindowStrict(entry_time, window_start) == entry_time > window_start

\* The test that picks the start of the window.
InWindow(entry_time, window_start) == entry_time >= window_start

RECURSIVE ScanWindow(_, _, _, _)
\* The loop `for entry in self.history[key]` of get_price_changes, from entry i.
ScanWindow(series, i, window_start, current_price) ==
    IF i > Len(series)
    THEN [start_price |-> None, current_price |-> current_price,
          change_percent |-> 0]
    ELSE IF InWindow(series[i].timestamp, window_start) /\ series[i].price > 0
    THEN [start_price |-> Some(series[i].price), current_price |-> current_price,
          change_percent |-> ChangePercent(series[i].price, current_price)]
    ELSE ScanWindow(series, i + 1, window_start, current_price)

\* get_price_changes for one window: None when the dict returned has no
\* entry for the window, else the entry.
get_price_changes(hist, symbol, market_type, window) ==
    LET key == HistoryKey(symbol, market_type)
        series == Get(hist, key, <<>>)
    IN  IF series = <<>>
        THEN None
        ELSE LET current_price == series[Len(series)].price
                 current_time == series[Len(series)].timestamp
             IN  Some(ScanWindow(series, 1, current_time - window * 60,
                                 current_price))

-----------------------------------------------------------------------------
(* BinanceMonitor.get_price.  A tick is what the ticker request gives:     *)
(* None when the request or the parsing of its answer raises, else the     *)
(* price of the answer.                                                    *)

\* get_price without the validity test.
get_price_unchecked(tick) == tick

\* get_price
get_price(tick) ==
    IF tick = None THEN None
    ELSE IF tick[1] <= 0 THEN None
    ELSE tick

-----------------------------------------------------------------------------
(* BinanceMonitor.check_for_alerts.                                        *)

alert_cooldown == 5 * 60
\* The ceiling on |change_percent| (1000 percent).
AnomalyCeiling == 1000 * 100

\* AlertKey that leaves the window out.
AlertKeyPerSeries(symbol, market_type, window) == <<symbol, market_type>>

\* The dict key f"{symbol}_{market_type}_{window}".
AlertKey(symbol, market_type, window) == <<symbol, market_type, window>>

Abs(x) == IF x < 0 THEN -x ELSE x

\* Breaches with a change equal to the threshold left out.
BreachesStrict(change_data, threshold) ==
    /\ change_data.start_price # None
    /\ change_data.start_price[1] > 0
    /\ change_data.current_price > 0
    /\ ~(Abs(change_data.change_percent) > AnomalyCeiling)
    /\ FloatGT(F(Abs(change_data.change_percent)), threshold)

\* The data-validity and anomaly tests and `abs_change >= threshold`.
Breaches(change_data, threshold) ==
    /\ change_data.start_price # None
    /\ change_data.start_price[1] > 0
    /\ change_data.current_price > 0
    /\ ~(Abs(change_data.change_percent) > AnomalyCeiling)
    /\ FloatGE(F(Abs(change_data.change_percent)), threshold)

\* CooldownOver with the boundary included.
CooldownOverInclusive(current_time, last_alert) ==
    current_time - last_alert >= alert_cooldown

\* The cooldown gate.
CooldownOver(current_time, last_alert) == current_time - last_alert > alert_cooldown

\* Whether check_for_alerts calls send_alert.
Dispatches(lat, key, change_data, threshold, current_time) ==
    /\ Breaches(change_data, threshold)
    /\ CooldownOver(current_time, Get(lat, key, 0))

\* last_alert_time after check_for_alerts; `delivered` is what send_telegram
\* returned, which send_alert drops.
AlertTimeAfter(lat, key, dispatched, delivered, current_time) ==
    IF dispatched THEN (key :> current_time) @@ lat ELSE lat

-----------------------------------------------------------------------------
(* Inputs.                                                                 *)

\* Prices the ticker API returns (tenths): 100.0 and 99.0.
FeedPrices == {1000, 990}
\* The feed while both loops run.
CorePrices == {1000}
\* The feed that probes the alert decision: 100.0, 99.4, 99.6, 99.0 and 9.0
\* (9.0 -> 99.0 is a change of exactly 1000 percent, 9.0 -> 100.0 is more),
\* and the prices 0 and -1.0 that get_price turns down.
AlertPrices == {1000, 994, 996, 990, 90, 0, -10}
\* Seconds from one cycle's start to the next: the sleep of CHECK_INTERVAL,
\* or longer when the calls of the cycle take their time.
CycleSteps == {CHECK_INTERVAL}
MonSteps == {CHECK_INTERVAL, alert_cooldown, MAX_HISTORY_HOURS * 3600}
\* Texts the operator sends while both loops run.
CoreTexts == {"1", "2", "BTCUSDT", "all", "/enable", "/disable"}
\* Texts of an operator who removes and adds rules.
CooldownTexts == {"1", "2", "BTCUSDT"}
\* Texts of an operator who only switches monitoring on and off.
GateTexts == {"/enable", "/disable", "abc"}

-----------------------------------------------------------------------------
(* History variables.                                                      *)

\* cycle.no       cycles begun
\* cycle.gate     "on"/"off": monitoring_enabled when the current cycle began
\* cycle.fetched  identities get_price was called for in the current cycle
\* cycle.done     the for loop of the current cycle has ended
\* cycle.removed  identities the conversation removed that are not in the registry
\* cycle.added    identities the conversation added that are in the registry
\* cycle.stale    cycle.removed at the start of the cycle, less those added since
\* cycle.present  the registry's identities at the start of the cycle, less
\*                those removed since
\* cycle.inflight identities the conversation added since the current cycle
\*                entered its for loop and before the loop ended
\* cycle.early    identities fetched in the current cycle that were in
\*                cycle.inflight when they were fetched
\* cycle.tick     <<>>, or <<t>> with t what the ticker gave the last get_price
\*                call of the current cycle: None, or a price
CycleInit ==
    [no |-> 0, gate |-> "none", fetched |-> {}, done |-> FALSE,
     removed |-> {}, added |-> {}, stale |-> {}, present |-> {},
     tick |-> <<>>, inflight |-> {}, early |-> {}, fault |-> 0]

RegistryWritten(cyc, old, new) ==
    LET gone == Identities(old) \ Identities(new)
        come == Identities(new) \ Identities(old)
    IN  [cyc EXCEPT !.removed = (@ \cup gone) \ come,
                    !.added = (@ \cup come) \ gone,
                    !.stale = @ \ come,
                    !.present = @ \ gone,
                    !.inflight = IF mon_pc = "for" THEN (@ \cup come) \ gone
                                 ELSE @]

LastTwo(seq) == IF Len(seq) > 2 THEN SubSeq(seq, Len(seq) - 1, Len(seq)) ELSE seq

-----------------------------------------------------------------------------
(* State after BinanceMonitor.__init__ with no state or history file.      *)

Init ==
    /\ monitoring_enabled = TRUE
    /\ monitoring_configs = DefaultConfigs(1, 1)
    /\ state_file = None
    /\ user_state = <<>>
    /\ last_update_id = 0
    /\ cmd_pc = "poll"
    /\ batch_left = 0
    /\ responses = <<>>
    /\ configs = <<>>
    /\ configs_aliased = FALSE
    /\ mon_pc = "start"
    /\ mon_idx = 0
    /\ history = <<>>
    /\ data_file = None
    /\ last_alert_time = <<>>
    /\ clock = StartClock
    /\ eval_log = <<>>
    /\ cycle = CycleInit
    /\ add_calls = <<>>

-----------------------------------------------------------------------------
(* command_loop / process_commands.                                        *)

\* Acknowledge that never moves the offset.
AcknowledgeNever(offset, update_id) == offset

\* self.last_update_id = update["update_id"], the first statement of the
\* loop body.
Acknowledge(offset, update_id) == update_id

\* The iterator of `for update in updates` moves on to the next update;
\* at the end of a result, getUpdates is called first and returns a
\* non-empty result of up to maxBatch updates.
NextUpdate(maxUpdates, maxBatch) ==
    /\ \E n \in 1..maxBatch :
          /\ \/ cmd_pc = "for" /\ n = batch_left
             \/ cmd_pc = "poll" /\ last_update_id + n <= maxUpdates
          /\ batch_left' = n - 1
    /\ last_update_id' = Acknowledge(last_update_id, last_update_id + 1)
    /\ cmd_pc' = IF batch_left' = 0 THEN "poll" ELSE "for"

\* An update without a message.
SkipUpdate(maxUpdates, maxBatch) ==
    /\ NextUpdate(maxUpdates, maxBatch)
    /\ responses' = <<>>
    /\ UNCHANGED <<botVars, user_state, configs, configs_aliased, monVars,
                   clock, cycle, add_calls>>

\* An update whose handling raises in process_commands itself: the except
\* clause ends the call, the rest of the result is fetched again.
RaisingUpdate(maxUpdates) ==
    /\ cmd_pc = "for" \/ last_update_id + 1 <= maxUpdates
    /\ last_update_id' = Acknowledge(last_update_id, last_update_id + 1)
    /\ batch_left' = 0
    /\ cmd_pc' = "poll"
    /\ responses' = <<>>
    /\ UNCHANGED <<botVars, user_state, configs, configs_aliased, monVars,
                   clock, cycle, add_calls>>

\* Authorized that lets every chat in.
AuthorizedAnyone(chat_id) == TRUE

\* The authorization test of process_commands.
Authorized(chat_id) == chat_id = TELEGRAM_CHAT_ID

\* A message of a chat that is not the configured one.
UnauthorizedUpdate(maxUpdates, maxBatch) ==
    /\ NextUpdate(maxUpdates, maxBatch)
    /\ \E chat_id \in ChatIds : ~Authorized(chat_id)
    /\ responses' = <<"unauthorized">>
    /\ UNCHANGED <<botVars, user_state, configs, configs_aliased, monVars,
                   clock, cycle, add_calls>>

\* A message of the configured chat.
AuthorizedUpdate(texts, maxUpdates, maxBatch) ==
    /\ NextUpdate(maxUpdates, maxBatch)
    /\ \E chat_id \in ChatIds, text \in texts :
          /\ Authorized(chat_id)
          /\ LET sess == Get(user_state, chat_id, IdleSession)
                 out == HandleText(sess, text, monitoring_enabled,
                                   monitoring_configs)
             IN  /\ user_state' = (chat_id :> out.session) @@ user_state
                 /\ responses' = out.responses
                 /\ monitoring_enabled' = out.enabled
                 /\ monitoring_configs' = out.configs
                 /\ state_file' = IF out.save
                                  THEN save_state(out.enabled, out.configs)
                                  ELSE state_file
                 /\ configs' = IF out.kind = "append" /\ configs_aliased
                               THEN out.configs ELSE configs
                 /\ configs_aliased' = IF out.kind = "rebind"
                                       THEN FALSE ELSE configs_aliased
                 /\ cycle' = RegistryWritten(cycle, monitoring_configs,
                                             out.configs)
                 /\ add_calls' = IF out.kind = "rebind" THEN <<>>
                                 ELSE LastTwo(add_calls \o out.call)
    /\ UNCHANGED <<monVars, clock>>

CommandLoop(texts, maxUpdates, maxBatch) ==
    \/ SkipUpdate(maxUpdates, maxBatch)
    \/ RaisingUpdate(maxUpdates)
    \/ UnauthorizedUpdate(maxUpdates, maxBatch)
    \/ AuthorizedUpdate(texts, maxUpdates, maxBatch)

-----------------------------------------------------------------------------
(* monitor_prices.                                                         *)

\* configs = self.bot_state.get_all_configs(), before the loop.
MonitorStart ==
    /\ mon_pc = "start"
    /\ configs' = monitoring_configs
    /\ configs_aliased' = TRUE
    /\ mon_pc' = "top"
    /\ UNCHANGED <<botVars, cmdVars, mon_idx, history, data_file,
                   last_alert_time, clock, eval_log, cycle, add_calls>>

\* CycleConfigs that reads the registry anew.
CycleConfigsLive == monitoring_configs

\* The list whose rules a cycle works through.
CycleConfigs == configs

\* GateOpen that ignores the flag.
GateIgnored(enabled) == TRUE

\* The gate at the top of a cycle.
GateOpen(enabled) == enabled

\* Iterate that empties the list it walks.
IterateDraining(list) == <<>>

\* `for config in configs`: the list object after the for statement has
\* taken its iterator.
Iterate(list) == list

\* The top of `while True` with monitoring enabled.  The list of the for
\* statement is the registry's own list while the two are aliased.
MonitorTop(maxCycles) ==
    /\ mon_pc = "top"
    /\ cycle.no < maxCycles
    /\ GateOpen(monitoring_enabled)
    /\ mon_pc' = "for"
    /\ mon_idx' = 0
    /\ configs' = Iterate(configs)
    /\ monitoring_configs' = IF configs_aliased THEN configs'
                             ELSE monitoring_configs
    /\ cycle' = [cycle EXCEPT !.no = @ + 1,
                              !.gate = IF monitoring_enabled THEN "on" ELSE "off",
                              !.fetched = {}, !.done = FALSE, !.tick = <<>>,
                              !.stale = cycle.removed,
                              !.present = Identities(monitoring_configs),
                              !.inflight = {}, !.early = {}]
    /\ UNCHANGED <<monitoring_enabled, state_file, cmdVars, configs_aliased,
                   history, data_file, last_alert_time, clock, eval_log,
                   add_calls>>

\* The top of `while True` with monitoring disabled: sleep and `continue`.
MonitorPaused(steps, maxCycles) ==
    /\ mon_pc = "top"
    /\ cycle.no < maxCycles
    /\ ~GateOpen(monitoring_enabled)
    /\ \E step \in steps : clock' = clock + step
    /\ cycle' = [cycle EXCEPT !.no = @ + 1,
                              !.gate = IF monitoring_enabled THEN "on" ELSE "off",
                              !.fetched = {}, !.done = FALSE, !.tick = <<>>,
                              !.stale = cycle.removed,
                              !.present = Identities(monitoring_configs),
                              !.inflight = {}, !.early = {}]
    /\ UNCHANGED <<botVars, cmdVars, configs, configs_aliased, mon_pc, mon_idx,
                   history, data_file, last_alert_time, eval_log, add_calls>>

\* AfterNoPrice that leaves the for loop (`break`).
AfterNoPriceBreak(idx, len) == len

\* The index of the list iterator after `if price is None: continue`.
AfterNoPrice(idx, len) == idx + 1

\* One iteration of `for config in configs` in which the ticker request
\* raises: get_price returns None and the loop continues.
MonitorFetchFails ==
    /\ mon_pc = "for"
    /\ mon_idx < Len(CycleConfigs)
    /\ get_price(None) = None
    /\ mon_idx' = AfterNoPrice(mon_idx, Len(CycleConfigs))
    /\ cycle' = [cycle EXCEPT !.fetched = @ \cup {Identity(CycleConfigs[mon_idx + 1])},
                              !.early = @ \cup ({Identity(CycleConfigs[mon_idx + 1])}
                                                   \cap cycle.inflight),
                              !.tick = <<None>>]
    /\ UNCHANGED <<botVars, cmdVars, configs, configs_aliased, mon_pc, history,
                   data_file, last_alert_time, clock, eval_log, add_calls>>

\* One iteration of `for config in configs` in which the ticker answers
\* with a price: get_price, and unless it returns None, add_price,
\* get_price_changes, check_for_alerts.
MonitorRule(prices) ==
    /\ mon_pc = "for"
    /\ mon_idx < Len(CycleConfigs)
    /\ \E tick \in prices, delivered \in BOOLEAN :
          LET config == CycleConfigs[mon_idx + 1]
              price == get_price(Some(tick))
              hist == add_price(history, config.symbol, config.market_type,
                                price, clock)
              changes == get_price_changes(hist, config.symbol,
                                           config.market_type, config.window)
              key == AlertKey(config.symbol, config.market_type, config.window)
              breach == changes # None /\ Breaches(changes[1], config.threshold)
              dispatched == changes # None /\
                            Dispatches(last_alert_time, key, changes[1],
                                       config.threshold, clock)
          IN  /\ cycle' = [cycle EXCEPT !.fetched = @ \cup {Identity(config)},
                                        !.early = @ \cup ({Identity(config)}
                                                             \cap cycle.inflight),
                                        !.tick = <<Some(tick)>>]
              /\ IF price = None
                 THEN /\ delivered
                      /\ mon_idx' = AfterNoPrice(mon_idx, Len(CycleConfigs))
                      /\ UNCHANGED <<history, data_file, last_alert_time,
                                     eval_log>>
                 ELSE /\ dispatched \/ delivered
                      /\ mon_idx' = mon_idx + 1
                      /\ history' = hist
                      /\ data_file' = IF InvalidPrice(price) THEN data_file
                                      ELSE Some(hist)
                      /\ last_alert_time' = AlertTimeAfter(last_alert_time, key,
                                                           dispatched, delivered,
                                                           clock)
                      /\ eval_log' = IF breach
                                     THEN Append(eval_log,
                                                 [key |-> key, time |-> clock,
                                                  dispatched |-> dispatched,
                                                  delivered |-> dispatched /\ delivered])
                                     ELSE eval_log
    /\ UNCHANGED <<botVars, cmdVars, configs, configs_aliased, mon_pc, clock,
                   add_calls>>

\* The for loop ends: time.sleep(CHECK_INTERVAL); the next cycle starts
\* `step` seconds after this one.
MonitorLoopEnd(steps) ==
    /\ mon_pc = "for"
    /\ mon_idx >= Len(CycleConfigs)
    /\ \E step \in steps : clock' = clock + step
    /\ mon_pc' = "top"
    /\ cycle' = [cycle EXCEPT !.done = TRUE, !.tick = <<>>]
    /\ UNCHANGED <<botVars, cmdVars, configs, configs_aliased, mon_idx, history,
                   data_file, last_alert_time, eval_log, add_calls>>

\* The process ends, as on KeyboardInterrupt.
AfterExceptionExit == "exit"

\* `except Exception`: the error is logged and `while True` goes round
\* again.
AfterException == "top"

\* time.sleep(30) of the except clause.
ErrorBackOff == 30

\* One iteration of `for config in configs` in which a statement of the try
\* body raises an Exception before anything is recorded.
MonitorRaises ==
    /\ mon_pc = "for"
    /\ mon_idx < Len(CycleConfigs)
    /\ mon_pc' = AfterException
    /\ clock' = clock + ErrorBackOff
    /\ cycle' = [cycle EXCEPT !.fault = cycle.no, !.tick = <<>>]
    /\ UNCHANGED <<botVars, cmdVars, configs, configs_aliased, mon_idx, history,
                   data_file, last_alert_time, eval_log, add_calls>>

MonitorLoop(prices, steps, maxCycles) ==
    \/ MonitorStart
    \/ MonitorTop(maxCycles)
    \/ MonitorPaused(steps, maxCycles)
    \/ MonitorFetchFails
    \/ MonitorRule(prices)
    \/ MonitorLoopEnd(steps)

-----------------------------------------------------------------------------
(* Specifications.                                                         *)

\* Both loops.
Next ==
    \/ CommandLoop(CoreTexts, MaxUpdates, CoreBatch)
    \/ MonitorLoop(CorePrices, CycleSteps, MaxCycles)

Spec == Init /\ [][Next]_vars

\* Both loops, the operator only switching monitoring on and off.
NextGate ==
    \/ CommandLoop(GateTexts, GateUpdates, CoreBatch)
    \/ MonitorLoop(FeedPrices, CycleSteps, GateCycles)

SpecGate == Init /\ [][NextGate]_vars

\* The conversation loop alone, with all texts.
NextDialog == CommandLoop(Texts, DialogUpdates, MaxBatch)

SpecDialog == Init /\ [][NextDialog]_vars

\* The state after construction when load_state finds the bot_state.json an
\* earlier run saved over the default rules, monitoring switched on or off.
InitLoaded ==
    /\ monitoring_enabled \in BOOLEAN
    /\ monitoring_configs = DefaultConfigs(1, 1)
    /\ state_file = Some(Document(monitoring_enabled, monitoring_configs))
    /\ user_state = <<>>
    /\ last_update_id = 0
    /\ cmd_pc = "poll"
    /\ batch_left = 0
    /\ responses = <<>>
    /\ configs = <<>>
    /\ configs_aliased = FALSE
    /\ mon_pc = "start"
    /\ mon_idx = 0
    /\ history = <<>>
    /\ data_file = None
    /\ last_alert_time = <<>>
    /\ clock = StartClock
    /\ eval_log = <<>>
    /\ cycle = CycleInit
    /\ add_calls = <<>>

\* The monitor loop alone, over the default rules.
NextMonitor == MonitorLoop(FeedPrices, MonSteps, MonCycles)

SpecMonitor == InitLoaded /\ [][NextMonitor]_vars

\* The monitor loop alone, over the feed that probes the alert decision.
NextAlert == MonitorLoop(AlertPrices, MonSteps, AlertCycles)

SpecAlert == InitLoaded /\ [][NextAlert]_vars

\* Both loops with faults in the monitor cycle, each loop scheduled again
\* and again: the conversation loop is a thread of its own and the monitor
\* loop runs on the main thread.
NextLive ==
    \/ CommandLoop(GateTexts, LiveUpdates, CoreBatch)
    \/ MonitorLoop(FeedPrices, CycleSteps, LiveCycles)
    \/ MonitorRaises

SpecLive ==
    /\ Init
    /\ [][NextLive]_vars
    /\ WF_vars(CommandLoop(GateTexts, LiveUpdates, CoreBatch))
    /\ WF_vars(MonitorLoop(FeedPrices, CycleSteps, LiveCycles) \/ MonitorRaises)

\* The price_history.json of an earlier run that ended a minute ago, each
\* series with a last sample of 99.0.
SavedHistory ==
    (HistoryKey("BTCUSDT_PERP", "spot") :>
        <<[timestamp |-> StartClock - CHECK_INTERVAL, price |-> 990]>>)
    @@ (HistoryKey("BTCUSDT", "spot") :>
        <<[timestamp |-> StartClock - CHECK_INTERVAL, price |-> 990]>>)

\* The state after construction when load_state and load_history find the
\* files of an earlier run in which the operator added a rule to the
\* default ones, monitoring switched on or off.
InitRestarted ==
    /\ monitoring_enabled \in BOOLEAN
    /\ monitoring_configs = DefaultConfigs(1, 1)
                               \o <<Rule("BTCUSDT", "spot", 1, F(100))>>
    /\ state_file = Some(Document(monitoring_enabled, monitoring_configs))
    /\ user_state = <<>>
    /\ last_update_id = 0
    /\ cmd_pc = "poll"
    /\ batch_left = 0
    /\ responses = <<>>
    /\ configs = <<>>
    /\ configs_aliased = FALSE
    /\ mon_pc = "start"
    /\ mon_idx = 0
    /\ history = SavedHistory
    /\ data_file = Some(SavedHistory)
    /\ last_alert_time = <<>>
    /\ clock = StartClock
    /\ eval_log = <<>>
    /\ cycle = CycleInit
    /\ add_calls = <<>>

\* Both loops, the feed at 100.0 after the 99.0 of the saved history, the
\* ticker API answering every request, the operator removing and adding
\* rules.
NextCooldown ==
    \/ CommandLoop(CooldownTexts, CooldownUpdates, CoreBatch)
    \/ MonitorStart
    \/ MonitorTop(CooldownCycles)
    \/ MonitorPaused(CycleSteps, CooldownCycles)
    \/ MonitorRule(CorePrices)
    \/ MonitorLoopEnd(CycleSteps)

SpecCooldown == InitRestarted /\ [][NextCooldown]_vars

TypeOK ==
    /\ monitoring_enabled \in BOOLEAN
    /\ Len(monitoring_configs) >= 0
    /\ cmd_pc \in {"poll", "for"}
    /\ mon_pc \in {"start", "top", "for"}
    /\ batch_left \in 0..MaxBatch
    /\ mon_idx \in 0..Len(configs)

-----------------------------------------------------------------------------
(* Claims.                                                                 *)

SameKeyPairs ==
    {p \in (DOMAIN eval_log) \X (DOMAIN eval_log) :
        /\ p[1] < p[2]
        /\ eval_log[p[1]].key = eval_log[p[2]].key}

\* Pairs of threshold-breaching evaluations of one key that lie within the
\* cooldown of each other.
PairsWithinCooldown ==
    {p \in SameKeyPairs :
        eval_log[p[2]].time - eval_log[p[1]].time <= alert_cooldown}

\* Consecutive threshold-breaching evaluations of one key.
ConsecutivePairs ==
    {p \in SameKeyPairs :
        \A k \in DOMAIN eval_log :
            p[1] < k /\ k < p[2] => eval_log[k].key # eval_log[p[1]].key}

DispatchedOf(p) == {k \in {p[1], p[2]} : eval_log[k].dispatched}

\* An alert for the key of evaluation i was dispatched in the cooldown
\* before it.
AlertedShortlyBefore(i) ==
    \E k \in DOMAIN eval_log :
        /\ k < i
        /\ eval_log[k].key = eval_log[i].key
        /\ eval_log[k].dispatched
        /\ eval_log[i].time - eval_log[k].time <= alert_cooldown

\* C1, as stated: any two threshold-breaching evaluations of one rule key
\* within the cooldown (300 s) of each other produce exactly one dispatched
\* alert.
C1_ExactlyOneAlertPerPair ==
    \A p \in PairsWithinCooldown : Cardinality(DispatchedOf(p)) = 1

\* C1, amended: two threshold-breaching evaluations of one rule key within
\* the cooldown of each other produce at most one dispatched alert, and
\* exactly one - the first evaluation's - when no alert for the key was
\* dispatched in the cooldown before the first of the two.
C1_Cooldown ==
    \A p \in PairsWithinCooldown :
        /\ Cardinality(DispatchedOf(p)) <= 1
        /\ ~AlertedShortlyBefore(p[1]) => DispatchedOf(p) = {p[1]}

\* Two breaching evaluations of one key exactly one cooldown apart, the
\* first dispatched and the second suppressed.
C1_Witness ==
    \E p \in PairsWithinCooldown :
        /\ eval_log[p[2]].time - eval_log[p[1]].time = alert_cooldown
        /\ eval_log[p[1]].dispatched
        /\ ~eval_log[p[2]].dispatched

\* C2: when the dispatch of a qualifying alert fails, the cooldown of the
\* key is not advanced, so the next threshold-breaching evaluation of the
\* key dispatches again, even within the cooldown.
C2_FailedDispatchIsRetried ==
    \A p \in ConsecutivePairs :
        eval_log[p[1]].dispatched /\ ~eval_log[p[1]].delivered
            => eval_log[p[2]].dispatched

\* C3: a monitor cycle that starts after a rule was removed through the
\* conversation fetches no price (and so records no sample and dispatches
\* no alert) for the removed rule.
C3_RemovedRuleNotFetched == cycle.fetched \cap cycle.stale = {}

\* C4: a rule added through the conversation that is in the registry from
\* the start of an enabled cycle to its end is price-polled in that cycle.
C4_AddedRulePolled ==
    cycle.done /\ cycle.gate = "on"
        => (cycle.present \cap cycle.added) \subseteq cycle.fetched

\* C5: a cycle that begins while monitoring is disabled fetches no price,
\* records no sample and evaluates no alert, and the conversation loop can
\* still handle an enable command during it.
C5_DisabledCycleIdle ==
    /\ [][cycle'.gate = "off" =>
            /\ history' = history
            /\ last_alert_time' = last_alert_time
            /\ eval_log' = eval_log
            /\ cycle'.fetched = {}]_vars
    /\ [](cycle.gate = "off" /\ last_update_id < GateUpdates
            => ENABLED AuthorizedUpdate({"/enable"}, GateUpdates, CoreBatch))

\* A paused cycle during which an enable command was handled, after samples
\* were recorded by an earlier cycle.
C5_Witness ==
    /\ cycle.gate = "off"
    /\ monitoring_enabled
    /\ responses = <<"monitoring_enabled">>
    /\ history # <<>>

\* C6: in a registry below capacity that lacks the identity, two add_config
\* calls in a row with the same (symbol, market_type, window) return True
\* and then False, whatever the thresholds, and the registry grows by
\* exactly one rule.
C6_AddTwice ==
    Len(add_calls) = 2
    /\ add_calls[1].identity = add_calls[2].identity
    /\ Len(add_calls[1].before) < MAX_MONITORING_CONFIGS
    /\ add_calls[1].identity \notin Identities(add_calls[1].before)
        => /\ add_calls[1].result = "True"
           /\ add_calls[2].result = "False"
           /\ Len(add_calls[2].after) = Len(add_calls[1].before) + 1
           /\ add_calls[2].after = add_calls[1].after

\* The same identity added twice in a row with different thresholds.
C6_Witness ==
    /\ Len(add_calls) = 2
    /\ add_calls[1].identity = add_calls[2].identity
    /\ add_calls[1].threshold # add_calls[2].threshold
    /\ add_calls[1].result = "True"
    /\ add_calls[2].result = "False"

\* C7, as stated: every add_config call made while the registry holds
\* MAX_MONITORING_CONFIGS rules returns None and leaves the registry
\* unchanged.
C7_FullRegistryReturnsNone ==
    \A i \in DOMAIN add_calls :
        Len(add_calls[i].before) >= MAX_MONITORING_CONFIGS
            => add_calls[i].result = "None" /\ add_calls[i].after = add_calls[i].before

\* C7, amended: every add_config call made while the registry holds
\* MAX_MONITORING_CONFIGS rules leaves the registry unchanged; it returns
\* None unless the identity is already registered, and then it returns
\* False.
C7_FullRegistryRejects ==
    \A i \in DOMAIN add_calls :
        Len(add_calls[i].before) >= MAX_MONITORING_CONFIGS
            => /\ add_calls[i].after = add_calls[i].before
               /\ add_calls[i].result =
                      IF add_calls[i].identity \in Identities(add_calls[i].before)
                      THEN "False" ELSE "None"

\* An add_config call on a full registry that returned None.
C7_Witness ==
    \E i \in DOMAIN add_calls :
        /\ Len(add_calls[i].before) >= MAX_MONITORING_CONFIGS
        /\ add_calls[i].result = "None"
        /\ monitoring_configs = add_calls[i].before

\* C8: the registry holds at most one rule per identity, at most
\* MAX_MONITORING_CONFIGS rules, and every rule has window > 0 and
\* threshold > 0.
C8_RegistryInvariant ==
    /\ \A i, j \in DOMAIN monitoring_configs :
           Identity(monitoring_configs[i]) = Identity(monitoring_configs[j]) => i = j
    /\ Len(monitoring_configs) <= MAX_MONITORING_CONFIGS
    /\ \A i \in DOMAIN monitoring_configs :
           /\ monitoring_configs[i].window > 0
           /\ FloatGT(monitoring_configs[i].threshold, F(0))

\* Windows (minutes) the windowed-change query is probed with: those of the
\* rules, the empty window and a negative one, for which no sample
\* qualifies.
ProbeWindows == {-5, 0, 1, 5, 15}

\* The indices of the samples of a series that lie in the window.
InWindowIndices(series, window) ==
    {i \in DOMAIN series :
        series[i].timestamp >= series[Len(series)].timestamp - window * 60}

Min(S) == CHOOSE x \in S : \A y \in S : x <= y

\* C9: for every recorded series and window, start_price is the price of
\* the earliest retained sample with timestamp >= now - window,
\* current_price is the latest sample's price, and start_price is absent
\* when no sample is in the window.
C9_EarliestInWindow ==
    \A key \in DOMAIN history : \A window \in ProbeWindows :
        LET series == history[key]
            result == get_price_changes(history, key[1], key[2], window)
            inside == InWindowIndices(series, window)
        IN  series # <<>> =>
                /\ result # None
                /\ result[1].current_price = series[Len(series)].price
                /\ result[1].start_price =
                       IF inside = {} THEN None
                       ELSE Some(series[Min(inside)].price)

\* A series whose second sample is exactly 5 minutes older than the latest
\* and whose first sample is older still: the 5-minute window starts at the
\* second sample.
C9_Witness ==
    \E key \in DOMAIN history :
        LET series == history[key]
        IN  /\ Len(series) >= 3
            /\ Min(InWindowIndices(series, 5)) > 1
            /\ series[Min(InWindowIndices(series, 5))].timestamp
                   = series[Len(series)].timestamp - 5 * 60
            /\ series[Min(InWindowIndices(series, 5))].price
                   # series[1].price

\* C10: after every add_price on a series no sample older than
\* now - MAX_HISTORY_HOURS remains in it, and every sample not older than
\* that horizon is kept, in its original order, followed by the new one.
C10_Retention ==
    [][\A key \in DOMAIN history' :
          LET old == Get(history, key, <<>>)
              new == history'[key]
              horizon == clock - MAX_HISTORY_HOURS * 3600
          IN  new # old =>
                  /\ \A i \in DOMAIN new : new[i].timestamp >= horizon
                  /\ new = SelectSeq(old, LAMBDA e : e.timestamp >= horizon)
                               \o <<new[Len(new)]>>]_vars

\* The rule a step of the for loop of monitor_prices works on.
RuleInHand == CycleConfigs[mon_idx + 1]

\* The windowed change check_for_alerts is handed in a step that records a
\* sample.
ChangeInHand ==
    get_price_changes(history', RuleInHand.symbol, RuleInHand.market_type,
                      RuleInHand.window)[1]

\* The step records a sample and evaluates the rule in hand.
EvaluatesRule == mon_pc = "for" /\ mon_idx' = mon_idx + 1 /\ history' # history

\* The step dispatches an alert for the rule in hand.
DispatchesAlert ==
    LET key == <<RuleInHand.symbol, RuleInHand.market_type, RuleInHand.window>>
    IN  /\ last_alert_time' # last_alert_time
        /\ key \in DOMAIN last_alert_time'
        /\ last_alert_time'[key] = clock

\* No cooldown is in force for the rule in hand.
NoCooldownInForce ==
    LET key == <<RuleInHand.symbol, RuleInHand.market_type, RuleInHand.window>>
    IN  key \notin DOMAIN last_alert_time
        \/ clock - last_alert_time[key] > 300

\* C11: for a rule key with no cooldown in force and positive start and
\* current prices, check_for_alerts dispatches an alert if and only if
\* threshold <= |change_percent| <= 1000; with window 5 and threshold 0.5,
\* 100.0 followed by 99.4 fires and 100.0 followed by 99.6 does not.
C11_AlertDecision ==
    [][EvaluatesRule /\ NoCooldownInForce
         /\ ChangeInHand.start_price # None
         /\ ChangeInHand.start_price[1] > 0
         /\ ChangeInHand.current_price > 0
       => LET magnitude == IF ChangeInHand.change_percent < 0
                           THEN -ChangeInHand.change_percent
                           ELSE ChangeInHand.change_percent
              threshold == RuleInHand.threshold
          IN  /\ DispatchesAlert
                   <=> /\ ~threshold.nan
                       /\ threshold.v <= magnitude
                       /\ magnitude <= 1000 * 100
              /\ threshold = F(50) /\ ChangeInHand.start_price = Some(1000)
                   => /\ ChangeInHand.current_price = 994 => DispatchesAlert
                      /\ ChangeInHand.current_price = 996 => ~DispatchesAlert]_vars

\* 100.0 was recorded, 99.4 five minutes later, and the 5-minute rule
\* (threshold 0.5) dispatched an alert at that moment.
C11_Witness ==
    \E key \in DOMAIN history :
        LET series == history[key]
            alert_key == <<key[1], key[2], 5>>
        IN  /\ Len(series) >= 2
            /\ series[1].price = 1000
            /\ series[Len(series)].price = 994
            /\ series[Len(series)].timestamp = series[1].timestamp + 5 * 60
            /\ alert_key \in DOMAIN last_alert_time
            /\ last_alert_time[alert_key] = series[Len(series)].timestamp

\* The ticker gave the get_price call of the step no price, or one that is
\* zero or negative.
TickInvalid ==
    /\ mon_pc = "for"
    /\ mon_idx' = mon_idx + 1
    /\ cycle'.tick # <<>>
    /\ cycle'.tick[1] = None \/ cycle'.tick[1][1] <= 0

\* C12: a price that is zero, negative or absent is never stored: the
\* series, the persisted history and the cooldown state stay as they were
\* and no alert is evaluated for the rule in that cycle.
C12_InvalidPriceDropped ==
    [][TickInvalid =>
          /\ history' = history
          /\ data_file' = data_file
          /\ last_alert_time' = last_alert_time
          /\ eval_log' = eval_log]_vars

\* The ticker answered with a price that is zero or negative while the
\* series recorded so far would breach the threshold of the rule in hand.
C12_Witness ==
    /\ mon_pc = "for"
    /\ mon_idx >= 1
    /\ cycle.tick # <<>>
    /\ cycle.tick[1] # None
    /\ cycle.tick[1][1] <= 0
    /\ LET config == CycleConfigs[mon_idx]
           changes == get_price_changes(history, config.symbol,
                                        config.market_type, config.window)
       IN  /\ changes # None
           /\ Breaches(changes[1], config.threshold)
           /\ data_file = Some(history)

\* The session of the authorized chat.
Session == Get(user_state, TELEGRAM_CHAT_ID, IdleSession)

\* What handling `text` as the next message of the authorized chat does.
Handled(text) ==
    HandleText(Session, text, monitoring_enabled, monitoring_configs)

\* Texts that read as a positive decimal.
PositiveDecimals == {"0.5", "1", "2", "3", "4", "5"}

\* The message that reports an outcome of add_config.
OutcomeMessage(result) ==
    CASE result = "True" -> "added"
      [] result = "False" -> "already_exists"
      [] result = "None" -> "capacity_exceeded"

\* C13: in ADD_CONFIG_STEP4 a positive threshold invokes add_config, the
\* user receives the message of its outcome (added, already exists,
\* capacity exceeded: three different messages), and the session goes to
\* ADD_CONFIG_CONTINUE.
C13_AddOutcomeThenContinue ==
    Session.state = "ADD_CONFIG_STEP4" =>
        \A text \in PositiveDecimals :
            /\ Handled(text).call # <<>>
            /\ Handled(text).responses[1]
                   = OutcomeMessage(Handled(text).call[1].result)
            /\ Handled(text).session.state = "ADD_CONFIG_CONTINUE"

\* Texts that match a cancel token.
CancelTexts == {"/cancel", "EXIT"}

\* The texts each step of the add dialog accepts: a symbol of 5 to 12
\* letters and digits, one of the two market types, a positive integer, a
\* positive decimal, yes or no.
Accepted(state) ==
    CASE state = "ADD_CONFIG_STEP1" -> {"BTCUSDT"}
      [] state = "ADD_CONFIG_STEP2" -> {"1", "2"}
      [] state = "ADD_CONFIG_STEP3" -> {"1", "2", "3", "4", "5"}
      [] state = "ADD_CONFIG_STEP4" -> PositiveDecimals
      [] state = "ADD_CONFIG_CONTINUE" -> {"1", "2"}

ValidationErrors ==
    {"perp_suffix_rejected", "invalid_symbol", "invalid_market_type",
     "invalid_window", "invalid_threshold", "invalid_continue"}

AddSteps ==
    {"ADD_CONFIG_STEP1", "ADD_CONFIG_STEP2", "ADD_CONFIG_STEP3",
     "ADD_CONFIG_STEP4", "ADD_CONFIG_CONTINUE"}

\* C14: in each step of the add dialog an input the step does not accept
\* (and that is no cancel token) is answered with one validation-error
\* message and leaves the dialog state, the session data, the registry and
\* the state file as they were.
C14_InvalidInputReprompts ==
    Session.state \in AddSteps =>
        \A text \in (Texts \ Accepted(Session.state)) \ CancelTexts :
            /\ Len(Handled(text).responses) = 1
            /\ Handled(text).responses[1] \in ValidationErrors
            /\ Handled(text).session = Session
            /\ Handled(text).configs = monitoring_configs
            /\ Handled(text).kind = "keep"
            /\ ~Handled(text).save

\* C15: from every dialog state other than IDLE, an input that matches a
\* cancel token moves the session to IDLE with empty data and leaves the
\* registry, the enabled flag and the state file unchanged.
C15_CancelReturnsToIdle ==
    Session.state # "IDLE" =>
        \A text \in CancelTexts :
            /\ Handled(text).session = [state |-> "IDLE", data |-> <<>>]
            /\ Handled(text).configs = monitoring_configs
            /\ Handled(text).enabled = monitoring_enabled
            /\ Handled(text).kind = "keep"
            /\ ~Handled(text).save

\* A dialog was cancelled after a rule had been added in it.
C15_Witness ==
    /\ responses = <<"cancelled">>
    /\ TELEGRAM_CHAT_ID \in DOMAIN user_state
    /\ user_state[TELEGRAM_CHAT_ID] = [state |-> "IDLE", data |-> <<>>]
    /\ add_calls # <<>>

\* C16: a message of a chat other than the configured one is answered
\* with the rejection and has no side effect: no session exists for such a
\* chat, and handling it leaves every session, the registry, the enabled
\* flag and the state file unchanged, whatever the dialog state of the
\* authorized chat.
C16_UnauthorizedNoEffect ==
    /\ [](DOMAIN user_state \subseteq {TELEGRAM_CHAT_ID})
    /\ [][responses' = <<"unauthorized">> /\ last_update_id' # last_update_id
            => /\ user_state' = user_state
               /\ monitoring_configs' = monitoring_configs
               /\ monitoring_enabled' = monitoring_enabled
               /\ state_file' = state_file
               /\ add_calls' = add_calls]_vars

\* A foreign chat was turned down while the authorized chat was about to
\* enter a threshold.
C16_Witness ==
    /\ responses = <<"unauthorized">>
    /\ DOMAIN user_state = {TELEGRAM_CHAT_ID}
    /\ user_state[TELEGRAM_CHAT_ID].state = "ADD_CONFIG_STEP4"

\* C17: the updates of a poll are handled in the order received and each
\* is acknowledged as it is consumed: the offset never decreases, and every
\* step of the conversation loop - one that handles a message, skips an
\* update or raises - consumes the update that follows the acknowledged one,
\* so no message is handled twice.
C17_OffsetAdvances ==
    [][/\ last_update_id' >= last_update_id
       /\ (cmdVars' # cmdVars \/ botVars' # botVars)
              => last_update_id' = last_update_id + 1
       /\ cmd_pc = "for" => batch_left' = batch_left - 1 \/ batch_left' = 0]_vars

\* After earlier polls, the first update of a poll of several was handled
\* and answered, the next one waiting.
C17_Witness ==
    /\ cmd_pc = "for"
    /\ batch_left >= 1
    /\ last_update_id >= 3
    /\ responses # <<>>

\* C18: after any sequence of registry mutations, save_state followed by
\* load_state in a fresh BotState gives the same rules - identities,
\* thresholds, order - and the same enabled flag, also when the registry
\* was emptied; and the file the last mutation wrote loads to that state.
C18_RoundTrip ==
    /\ BotStateInit(Some(Document(monitoring_enabled, monitoring_configs)))
           = [monitoring_enabled |-> monitoring_enabled,
              monitoring_configs |-> monitoring_configs]
    /\ state_file # None
           => /\ BotStateInit(state_file).monitoring_configs = monitoring_configs
              /\ BotStateInit(state_file).monitoring_enabled = monitoring_enabled

\* Monitoring was switched off and the registry was emptied and saved.
C18_Witness ==
    /\ monitoring_configs = <<>>
    /\ ~monitoring_enabled
    /\ state_file = Some(Document(FALSE, <<>>))
    /\ responses = <<"all_removed">>

\* The number a text of digits stands for; 0 for a text that is no number.
IndexTexts == {"0", "1", "2", "3", "4", "5"}
NumberOf(text) ==
    CASE text = "1" -> 1 [] text = "2" -> 2 [] text = "3" -> 3
      [] text = "4" -> 4 [] text = "5" -> 5 [] OTHER -> 0

\* The list without its k-th element.
WithoutKth(list, k) == SubSeq(list, 1, k - 1) \o SubSeq(list, k + 1, Len(list))

\* The bulk-clear token, in either case.
ClearTexts == {"all", "ALL"}

\* C19: in REMOVE_CONFIG_SELECT the list presented is the registry; a valid
\* 1-based index k removes exactly its k-th rule, keeps the others in
\* their order and returns to IDLE; the bulk-clear token empties the
\* registry and returns to IDLE; an index out of range or a text that is
\* no number re-prompts and leaves the dialog state, the session data and
\* the registry unchanged.
C19_RemoveSelect ==
    Session.state = "REMOVE_CONFIG_SELECT" =>
        LET listed == Session.data.configs
        IN  /\ listed = monitoring_configs
            /\ \A text \in Texts \ CancelTexts :
                   LET out == Handled(text)
                       k == NumberOf(text)
                   IN  IF text \in ClearTexts
                       THEN /\ out.configs = <<>>
                            /\ out.save
                            /\ out.session = [state |-> "IDLE", data |-> <<>>]
                       ELSE IF text \in IndexTexts /\ 1 <= k /\ k <= Len(listed)
                       THEN /\ out.configs = WithoutKth(listed, k)
                            /\ out.save
                            /\ out.session = [state |-> "IDLE", data |-> <<>>]
                       ELSE /\ out.configs = monitoring_configs
                            /\ out.kind = "keep"
                            /\ ~out.save
                            /\ out.session = Session
                            /\ Len(out.responses) = 1

\* The first rule of a registry of several was removed by its index and the
\* rule that followed it is now the first.
C19_Witness ==
    /\ responses = <<"removed">>
    /\ Session = [state |-> "IDLE", data |-> <<>>]
    /\ monitoring_configs # <<>>
    /\ monitoring_configs[1] = DefaultConfigs(1, 1)[2]
    /\ state_file = Some(Document(monitoring_enabled, monitoring_configs))

\* The inbound texts that are command tokens.
CommandTexts == {"1", "2", "3", "4", "5", "/enable", "/disable"}

\* C20: while the session is IDLE, an input that matches no command token
\* is answered with the unknown-command message and changes nothing: the
\* session stays IDLE and the registry, the enabled flag and the state file
\* are unchanged.
C20_UnknownCommand ==
    Session.state = "IDLE" =>
        \A text \in Texts \ CommandTexts :
            /\ Handled(text).responses = <<"unknown_command">>
            /\ Handled(text).session = Session
            /\ Handled(text).configs = monitoring_configs
            /\ Handled(text).enabled = monitoring_enabled
            /\ Handled(text).kind = "keep"
            /\ ~Handled(text).save

\* An unknown command was answered in IDLE after the registry had been
\* changed and monitoring switched off.
C20_Witness ==
    /\ responses = <<"unknown_command">>
    /\ TELEGRAM_CHAT_ID \in DOMAIN user_state
    /\ user_state[TELEGRAM_CHAT_ID].state = "IDLE"
    /\ monitoring_configs # DefaultConfigs(1, 1)
    /\ ~monitoring_enabled

\* C21: in ADD_CONFIG_CONTINUE the answer yes moves the session to
\* ADD_CONFIG_STEP1 with empty data, the answer no moves it to IDLE with
\* empty data and sends the offer to enable monitoring; neither changes the
\* registry, the enabled flag or the state file.
C21_ContinueAnswers ==
    Session.state = "ADD_CONFIG_CONTINUE" =>
        /\ Handled("1").session = [state |-> "ADD_CONFIG_STEP1", data |-> <<>>]
        /\ Handled("2").session = [state |-> "IDLE", data |-> <<>>]
        /\ Handled("2").responses = <<"ask_start_monitoring">>
        /\ \A text \in {"1", "2"} :
               /\ Handled(text).configs = monitoring_configs
               /\ Handled(text).enabled = monitoring_enabled
               /\ Handled(text).kind = "keep"
               /\ ~Handled(text).save

\* The answer no was given after a rule had been added: the offer was sent
\* and the session is idle.
C21_Witness ==
    /\ responses = <<"ask_start_monitoring">>
    /\ Session = [state |-> "IDLE", data |-> <<>>]
    /\ Len(add_calls) >= 1
    /\ add_calls[Len(add_calls)].result = "True"

\* C22: a monitor cycle works on the rules the registry held when the
\* cycle started: a rule the conversation adds while the cycle is in flight
\* is not fetched (and so not evaluated) in that cycle.
C22_SnapshotPerCycle == cycle.early = {}

\* C23: every action that changes the registry or the enabled flag (add,
\* remove by index, bulk clear, enable, disable) has written the state file
\* when it completes: a step that changes either leaves the document of
\* the new state on disk, and a document on disk always reads as the
\* flag and the ordered rule list in memory.
C23_PersistedEqualsMemory ==
    /\ [](state_file # None
            => json_load(state_file[1])
                   = [monitoring_enabled |-> monitoring_enabled,
                      monitoring_configs |-> monitoring_configs])
    /\ [][monitoring_configs' # monitoring_configs
            \/ monitoring_enabled' # monitoring_enabled
          => /\ state_file' # None
             /\ json_load(state_file'[1])
                    = [monitoring_enabled |-> monitoring_enabled',
                       monitoring_configs |-> monitoring_configs']]_vars

\* Monitoring was switched off after a rule had been added, and the file
\* holds the three rules and the flag.
C23_Witness ==
    /\ responses = <<"monitoring_disabled">>
    /\ Len(monitoring_configs) = 3
    /\ state_file # None
    /\ json_load(state_file[1]).monitoring_enabled = FALSE
    /\ Len(json_load(state_file[1]).monitoring_configs) = 3

\* The get_price call of the step returned no price.
NoPriceReturned ==
    /\ mon_pc = "for"
    /\ mon_idx' # mon_idx
    /\ cycle'.tick # <<>>
    /\ cycle'.tick[1] = None \/ cycle'.tick[1][1] <= 0

\* C24: when get_price returns no price for a rule, only that rule is
\* skipped: no sample is recorded, the history, its file, the cooldown map
\* and the registry are unchanged, the loop goes on to the next rule, and
\* every rule of the list has been fetched when an enabled cycle ends.
C24_FetchFailureSkipsRule ==
    /\ [][NoPriceReturned =>
            /\ history' = history
            /\ data_file' = data_file
            /\ last_alert_time' = last_alert_time
            /\ monitoring_configs' = monitoring_configs
            /\ monitoring_enabled' = monitoring_enabled
            /\ configs' = configs
            /\ mon_pc' = "for"
            /\ mon_idx' = mon_idx + 1]_vars
    /\ [](cycle.done /\ cycle.gate = "on"
            => cycle.fetched = Identities(configs))

\* The first enabled cycle ended over the two default rules, which share
\* one series: both were fetched, one fetch returned no price and the
\* sample of the other was recorded.
C24_Witness ==
    /\ cycle.done
    /\ cycle.gate = "on"
    /\ cycle.no = 1
    /\ cycle.fetched = Identities(configs)
    /\ Len(configs) = 2
    /\ \E key \in DOMAIN history : Len(history[key]) = 1

\* C25: no fault ends a loop.  An Exception raised in a monitor cycle or
\* while an update is handled is caught inside the loop, and with both loops
\* scheduled fairly each goes on to its next cycle: every monitor cycle
\* below the bound is followed by the next one, also when it ended in a
\* fault, and every update below the bound is followed by the next one.
C25_LoopsKeepCycling ==
    /\ \A k \in 0..(LiveCycles - 1) : (cycle.no = k) ~> (cycle.no = k + 1)
    /\ \A k \in 1..(LiveCycles - 1) : (cycle.fault = k) ~> (cycle.no > k)
    /\ \A k \in 0..(LiveUpdates - 1) :
          (last_update_id = k) ~> (last_update_id > k)

\* A cycle ended in a fault and a later cycle is at work on its rules, the
\* conversation loop having taken all its updates.
C25_Witness ==
    /\ cycle.fault >= 1
    /\ cycle.no > cycle.fault
    /\ mon_pc = "for"
    /\ last_update_id = LiveUpdates

\* C26: each loop writes only what it owns.  No step of the monitor loop
\* changes the registry, the flag, their file or a session; no step of the
\* conversation loop changes the price history, its file or the cooldown
\* map; and every change of the registry is a step of the conversation loop.
C26_OwnershipFrame ==
    /\ [][MonitorLoop(CorePrices, CycleSteps, MaxCycles)
             => UNCHANGED <<monitoring_configs, monitoring_enabled,
                            state_file, user_state>>]_vars
    /\ [][CommandLoop(CoreTexts, MaxUpdates, CoreBatch)
             => UNCHANGED <<history, data_file, last_alert_time>>]_vars
    /\ [][monitoring_configs' # monitoring_configs
             => CommandLoop(CoreTexts, MaxUpdates, CoreBatch)]_vars

\* Both loops have written: the monitor loop is in its second cycle over a
\* list it shares with the registry and has recorded samples, and the
\* conversation loop has added a rule to the registry and holds a session.
C26_Witness ==
    /\ mon_pc = "for"
    /\ cycle.no = 2
    /\ configs_aliased
    /\ DOMAIN history # {}
    /\ Len(monitoring_configs) = 3
    /\ user_state # <<>>

\* The keys of the cooldown map.
CooldownKeys == DOMAIN last_alert_time

\* C27: a cooldown record is written only by a step that dispatches an
\* alert, for the key of the rule in hand and at the time of the step; no
\* record is ever removed or changed by another step; and the map never
\* holds more than MAX_MONITORING_CONFIGS keys, however additions, removals
\* and cycles interleave.
C27_CooldownRecords ==
    /\ [][last_alert_time' # last_alert_time =>
            LET key == AlertKey(RuleInHand.symbol, RuleInHand.market_type,
                                RuleInHand.window)
            IN  /\ EvaluatesRule
                /\ Dispatches(last_alert_time, key, ChangeInHand,
                              RuleInHand.threshold, clock)
                /\ last_alert_time' = (key :> clock) @@ last_alert_time]_vars
    /\ [][CooldownKeys \subseteq DOMAIN last_alert_time']_vars
    /\ [](Cardinality(CooldownKeys) <= MAX_MONITORING_CONFIGS)

\* The map holds MAX_MONITORING_CONFIGS keys, one of them of a rule the
\* registry no longer holds, and the registry holds a rule added since that
\* has no record.
C27_Witness ==
    /\ Cardinality(CooldownKeys) = MAX_MONITORING_CONFIGS
    /\ CooldownKeys \ Identities(monitoring_configs) # {}
    /\ Identities(monitoring_configs) \ CooldownKeys # {}
    /\ Len(monitoring_configs) = MAX_MONITORING_CONFIGS

\* C28: no session is ever in START_MONITOR_QUESTION, and the reply "1" to
\* the offer to enable monitoring is handled as the idle command that
\* starts the add dialog: the session goes to ADD_CONFIG_STEP1, the symbol
\* is asked for, and the enabled flag and the state file stay as they are.
C28_OfferNeverAwaited ==
    /\ \A chat_id \in DOMAIN user_state :
           user_state[chat_id].state # "START_MONITOR_QUESTION"
    /\ responses = <<"ask_start_monitoring">> =>
           /\ Handled("1").session
                  = [state |-> "ADD_CONFIG_STEP1", data |-> <<>>]
           /\ Handled("1").responses = <<"ask_symbol">>
           /\ Handled("1").enabled = monitoring_enabled
           /\ Handled("1").configs = monitoring_configs
           /\ ~Handled("1").save

\* The offer to enable monitoring was sent while monitoring is switched
\* off and the registry holds a rule the operator added.
C28_Witness ==
    /\ responses = <<"ask_start_monitoring">>
    /\ ~monitoring_enabled
    /\ Len(monitoring_configs) = 3
    /\ TELEGRAM_CHAT_ID \in DOMAIN user_state

\* Thresholds above zero: 0.01, 0.5 and 1.0 percent.
ProbeThresholds == {F(1), F(50), F(100)}

\* C29: right after a sample is recorded, get_price_changes on its series
\* has a start price for every window above zero, the recorded sample being
\* in the window itself; when the series holds that sample alone the start
\* price is the current price, the change is 0, no threshold above zero is
\* breached and the step dispatches no alert.
C29_FreshSampleInWindow ==
    [][EvaluatesRule =>
         LET key == HistoryKey(RuleInHand.symbol, RuleInHand.market_type)
         IN  /\ \A window \in {w \in ProbeWindows : w > 0} :
                  LET changes == get_price_changes(history', RuleInHand.symbol,
                                                   RuleInHand.market_type,
                                                   window)
                  IN  /\ changes # None
                      /\ changes[1].start_price # None
                      /\ Len(history'[key]) = 1 =>
                            /\ changes[1].start_price
                                   = Some(changes[1].current_price)
                            /\ changes[1].change_percent = 0
                            /\ \A threshold \in ProbeThresholds :
                                   ~Breaches(changes[1], threshold)
             /\ Len(history'[key]) = 1
                    => last_alert_time' = last_alert_time]_vars

\* The first sample of a series has just been recorded at 99.0 and no alert
\* was dispatched.
C29_Witness ==
    /\ mon_pc = "for"
    /\ mon_idx = 1
    /\ cycle.no = 1
    /\ cycle.tick = <<Some(990)>>
    /\ \E key \in DOMAIN history :
           /\ Len(history[key]) = 1
           /\ history[key][1].price = 990
    /\ last_alert_time = <<>>

\* C30: the idle remove command, the registry holding a rule, moves the
\* session to REMOVE_CONFIG without listing the rules; there the next
\* message, unless it is a cancel token, is not read as a selection: the
\* rules are listed and the session goes to REMOVE_CONFIG_SELECT (to IDLE
\* with the no-rules message when the registry is empty), the registry, the
\* enabled flag and the state file unchanged.
C30_RemoveTakesTwoMessages ==
    /\ Session.state = "IDLE" /\ monitoring_configs # <<>> =>
           /\ Handled("2").session = [state |-> "REMOVE_CONFIG", data |-> <<>>]
           /\ Handled("2").responses = <<"prepare_remove">>
    /\ Session.state = "REMOVE_CONFIG" =>
           \A text \in Texts \ CancelTexts :
               /\ IF monitoring_configs = <<>>
                  THEN /\ Handled(text).session = IdleSession
                       /\ Handled(text).responses = <<"no_configs">>
                  ELSE /\ Handled(text).session
                              = [state |-> "REMOVE_CONFIG_SELECT",
                                 data |-> [configs |-> monitoring_configs]]
                       /\ Handled(text).responses = <<"config_list">>
    /\ Session.state \in {"IDLE", "REMOVE_CONFIG"} =>
           \A text \in IF Session.state = "IDLE" THEN {"2"}
                       ELSE Texts \ CancelTexts :
               /\ Handled(text).configs = monitoring_configs
               /\ Handled(text).enabled = monitoring_enabled
               /\ Handled(text).kind = "keep"
               /\ ~Handled(text).save

\* The rules were listed in answer to the message after the remove command,
\* the registry holding the rule the operator added, and the selection is
\* awaited.
C30_Witness ==
    /\ responses = <<"config_list">>
    /\ Session.state = "REMOVE_CONFIG_SELECT"
    /\ Session.data.configs = monitoring_configs
    /\ Len(monitoring_configs) = 3

\* The cooldown key of the rule in hand: its symbol, market type and
\* window.
KeyInHand == <<RuleInHand.symbol, RuleInHand.market_type, RuleInHand.window>>

\* C31: the cooldown is kept per rule key.  A step that evaluates a rule,
\* whether it dispatches or not, leaves the record of every other key as
\* it was, and a breach by a rule whose own key has no cooldown in force is
\* dispatched whatever the records of the other windows and market types
\* of the same symbol are.
C31_CooldownPerKey ==
    [][EvaluatesRule =>
         /\ \A key \in (DOMAIN last_alert_time \cup DOMAIN last_alert_time')
                           \ {KeyInHand} :
                /\ key \in DOMAIN last_alert_time
                /\ key \in DOMAIN last_alert_time'
                /\ last_alert_time'[key] = last_alert_time[key]
         /\ Breaches(ChangeInHand, RuleInHand.threshold) /\ NoCooldownInForce
                => DispatchesAlert]_vars

\* An alert for the 5 minute window of a symbol has just been dispatched
\* while the cooldown of its 15 minute window, alerted in the cycle
\* before, is in force and its record unchanged.
C31_Witness ==
    LET short == <<"BTCUSDT_PERP", "spot", 5>>
        long == <<"BTCUSDT_PERP", "spot", 15>>
    IN  /\ mon_pc = "for"
        /\ mon_idx = 1
        /\ short \in DOMAIN last_alert_time
        /\ long \in DOMAIN last_alert_time
        /\ last_alert_time[short] = clock
        /\ last_alert_time[long] < clock
        /\ clock - last_alert_time[long] <= alert_cooldown

====
